---- MODULE Spec2Model ----
(***************************************************************************)
(* Model of read_meta.py: the cache-aware extraction and publisher         *)
(* normalisation pipeline (main and its helpers).                          *)
(*                                                                         *)
(* Python strings are sequences of one-character strings, so that lower(), *)
(* strip() and the substring test `kw in s` are computed, not assumed.     *)
(* Python's None, where it is a publisher value or a dict key, is the      *)
(* distinguished value None below; an optional result (a dict or None) is  *)
(* a sequence of length 0 or 1.                                            *)
(***************************************************************************)
EXTENDS Integers, Sequences, FiniteSets, TLC

(***************************************************************************)
(* Bounds of the model.                                                    *)
(***************************************************************************)
MaxRuns == 2        \* invocations of main() in one behaviour
MaxMods == 1        \* modifications or deletions of files by the environment
MaxMtime == 2       \* largest modification time a file reaches
MaxAiCalls == 1     \* runs that reach the external endpoint

(***************************************************************************)
(* Strings.                                                                *)
(***************************************************************************)
None == <<"None">>                      \* Python's None as a publisher / key
EmptyStr == <<>>                        \* ''
NA == <<"N", "/", "A">>                 \* 'N/A'
Null == <<"n", "u", "l", "l">>          \* "null"

Upper == <<"A","B","C","D","E","F","G","H","I","J","K","L","M",
           "N","O","P","Q","R","S","T","U","V","W","X","Y","Z">>
LowerAlpha == <<"a","b","c","d","e","f","g","h","i","j","k","l","m",
                "n","o","p","q","r","s","t","u","v","w","x","y","z">>

LowerChar(c) ==
    IF \E i \in 1..26 : Upper[i] = c
    THEN LowerAlpha[CHOOSE i \in 1..26 : Upper[i] = c]
    ELSE c

\* str.lower()
lower(s) == [i \in 1..Len(s) |-> LowerChar(s[i])]

RECURSIVE lstrip(_)
lstrip(s) == IF s # <<>> /\ Head(s) = " " THEN lstrip(Tail(s)) ELSE s

RECURSIVE rstrip(_)
rstrip(s) ==
    IF s # <<>> /\ s[Len(s)] = " " THEN rstrip(SubSeq(s, 1, Len(s) - 1)) ELSE s

\* str.strip()
strip(s) == rstrip(lstrip(s))

\* Python's `kw in s` on strings
IsSubstring(kw, s) ==
    \E i \in 0..(Len(s) - Len(kw)) : SubSeq(s, i + 1, i + Len(kw)) = kw

\* Python truthiness of a publisher value: None and '' are falsy
Truthy(name) == name # None /\ name # EmptyStr

\* s.endswith(suffix)
EndsWith(s, suffix) ==
    /\ Len(s) >= Len(suffix)
    /\ SubSeq(s, Len(s) - Len(suffix) + 1, Len(s)) = suffix

(***************************************************************************)
(* Dicts are functions on the set of their keys.                           *)
(***************************************************************************)
EmptyDict == <<>>

\* dict.update(u)
Update(d, u) ==
    [k \in (DOMAIN d) \cup (DOMAIN u) |-> IF k \in DOMAIN u THEN u[k] ELSE d[k]]

\* d[k] = v
Put(d, k, v) == [x \in (DOMAIN d) \cup {k} |-> IF x = k THEN v ELSE d[x]]

\* d.get(k) as an optional value
Get(d, k) == IF k \in DOMAIN d THEN <<d[k]>> ELSE <<>>

SeqToSet(s) == {s[i] : i \in 1..Len(s)}

(***************************************************************************)
(* Durable cache files: load_cache / save_cache.                           *)
(***************************************************************************)
\* A cache file is absent, or holds what json.dump wrote ("json"), or has no
\* bytes ("empty"), or holds text that is no JSON document, as a file cut
\* short does ("malformed"), or holds bytes that are no text ("undecodable").
AbsentFile == [kind |-> "absent", data |-> EmptyDict]

DamagedFile(kind) == [kind |-> kind, data |-> EmptyDict]

\* The cache files a first run can find: none, or one of the two damaged.
CacheFilesAtStart ==
    {<<AbsentFile, AbsentFile>>}
        \cup {<<DamagedFile(k), AbsentFile>> : k \in {"empty", "malformed", "undecodable"}}
        \cup {<<AbsentFile, DamagedFile(k)>> : k \in {"empty", "malformed", "undecodable"}}

\* json.dump writes a None key as the string "null"; string keys are kept.
JsonKey(k) == IF k = None THEN Null ELSE k

\* The mapping a later json.load reads back from what json.dump wrote.  A
\* None key is always inserted after a "null" key that was loaded from the
\* file, and json.load keeps the last of two equal keys.
JsonRoundTrip(d) ==
    [k \in {JsonKey(x) : x \in DOMAIN d} |->
        IF k = Null /\ None \in DOMAIN d THEN d[None] ELSE d[k]]

save_cache(cache_data) == [kind |-> "json", data |-> JsonRoundTrip(cache_data)]

\* load_cache that finds no file, whatever was saved.
load_cache_Empty(cache_file) == EmptyDict

load_cache(cache_file) ==
    IF cache_file.kind = "json" THEN cache_file.data ELSE EmptyDict

\* The contents for which open/json.load of lines 49-51 raises something else
\* than JSONDecodeError: bytes that are not text (UnicodeDecodeError).
load_cache_raises(cache_file) == cache_file.kind = "undecodable"

(***************************************************************************)
(* Rules: load_rules_from_csv.  A rules file is a sequence of rows, a row  *)
(* a sequence of cells, the first cell the canonical name.                 *)
(***************************************************************************)
RECURSIVE KeywordsOf(_)
KeywordsOf(cells) ==
    IF cells = <<>> THEN <<>>
    ELSE IF Head(cells) # EmptyStr
         THEN <<strip(lower(Head(cells)))>> \o KeywordsOf(Tail(cells))
         ELSE KeywordsOf(Tail(cells))

RECURSIVE RulesOfRows(_)
RulesOfRows(rows) ==
    IF rows = <<>> THEN <<>>
    ELSE IF Head(rows) = <<>>
         THEN RulesOfRows(Tail(rows))
         ELSE <<[keywords |-> KeywordsOf(Tail(Head(rows))),
                 canonical |-> Head(Head(rows))]>> \o RulesOfRows(Tail(rows))

load_rules_from_csv(file) ==
    IF file.exists THEN RulesOfRows(file.rows) ELSE <<>>

(***************************************************************************)
(* Publisher matching: lines 342-348 of main.                              *)
(***************************************************************************)
\* match_target = name.lower() if name else "null"
match_target(name) == IF Truthy(name) THEN lower(name) ELSE Null

\* The two nested loops of lines 344-347 as a fold over rules and keywords.
\* best = [len |-> best_match_len, canonical |-> best_canonical (optional)]
\* The keyword loop with the first matching keyword kept instead of the longest.
RECURSIVE ScanKeywords_FirstMatch(_, _, _, _)
ScanKeywords_FirstMatch(keywords, canonical, target, best) ==
    IF keywords = <<>> THEN best
    ELSE LET kw == Head(keywords)
             nb == IF IsSubstring(kw, target) /\ best.len = 0
                   THEN [len |-> Len(kw), canonical |-> <<canonical>>]
                   ELSE best
         IN  ScanKeywords_FirstMatch(Tail(keywords), canonical, target, nb)

RECURSIVE ScanKeywords(_, _, _, _)
ScanKeywords(keywords, canonical, target, best) ==
    IF keywords = <<>> THEN best
    ELSE LET kw == Head(keywords)
             nb == IF IsSubstring(kw, target) /\ Len(kw) > best.len
                   THEN [len |-> Len(kw), canonical |-> <<canonical>>]
                   ELSE best
         IN  ScanKeywords(Tail(keywords), canonical, target, nb)

RECURSIVE ScanRules(_, _, _)
ScanRules(rs, target, best) ==
    IF rs = <<>> THEN best
    ELSE ScanRules(Tail(rs), target,
                   ScanKeywords(Head(rs).keywords, Head(rs).canonical, target, best))

\* best_canonical after the loops, as an optional value; `if best_canonical:`
\* is false for None and for ''.
best_canonical(rs, name) ==
    LET best == ScanRules(rs, match_target(name), [len |-> 0, canonical |-> <<>>])
    IN  IF best.canonical # <<>> /\ best.canonical[1] # EmptyStr
        THEN best.canonical ELSE <<>>

\* The loop body with the rules consulted before the publisher cache.
ResolveTier_RulesFirst(name, cache, rs) ==
    IF best_canonical(rs, name) # <<>>
    THEN [tier |-> "rule", value |-> best_canonical(rs, name)]
    ELSE IF name \in DOMAIN cache
         THEN [tier |-> "cache", value |-> <<cache[name]>>]
         ELSE [tier |-> "pending", value |-> <<>>]

\* One iteration of the loop of lines 337-351: which branch `name` takes.
ResolveTier(name, cache, rs) ==
    IF name \in DOMAIN cache
    THEN [tier |-> "cache", value |-> <<cache[name]>>]
    ELSE IF best_canonical(rs, name) # <<>>
         THEN [tier |-> "rule", value |-> best_canonical(rs, name)]
         ELSE [tier |-> "pending", value |-> <<>>]

(***************************************************************************)
(* Change detection and extraction: check_file_cache, process_file.        *)
(* A file's state is [exists, mtime, content]; content is what the         *)
(* document embeds: [ok, title, authors, publisher], title and publisher   *)
(* optional, ok = FALSE for a document the parser fails on.                *)
(***************************************************************************)
\* os.path.getmtime as an optional value: empty for FileNotFoundError
getmtime(st) == IF st.exists THEN <<st.mtime>> ELSE <<>>

\* check_file_cache without the comparison of fingerprints.
check_file_cache_AnyEntry(st, cached_entry) ==
    IF cached_entry # <<>>
    THEN [status |-> "HIT", data |-> <<cached_entry[1].metadata>>]
    ELSE [status |-> "MISS", data |-> <<>>]

check_file_cache(st, cached_entry) ==
    IF getmtime(st) = <<>>
    THEN [status |-> "MISS", data |-> <<>>]                  \* FileNotFoundError
    ELSE IF cached_entry # <<>> /\ cached_entry[1].mtime = getmtime(st)[1]
         THEN [status |-> "HIT", data |-> <<cached_entry[1].metadata>>]
         ELSE [status |-> "MISS", data |-> <<>>]

extract_epub_metadata(st) ==
    IF ~st.exists \/ ~st.content.ok THEN <<>>
    ELSE <<[title |-> IF st.content.title # <<>> THEN st.content.title[1] ELSE NA,
            authors |-> st.content.authors,
            publisher |-> IF st.content.publisher # <<>>
                          THEN st.content.publisher[1] ELSE None]>>

extract_pdf_metadata(st) ==
    IF ~st.exists \/ ~st.content.ok THEN <<>>
    ELSE <<[title |-> IF st.content.title # <<>> /\ st.content.title[1] # EmptyStr
                      THEN st.content.title[1] ELSE NA,
            authors |-> IF st.content.authors # <<>> /\ st.content.authors[1] # EmptyStr
                        THEN <<st.content.authors[1]>> ELSE <<>>,
            publisher |-> IF st.content.publisher # <<>>
                             /\ st.content.publisher[1] # EmptyStr
                          THEN st.content.publisher[1] ELSE None]>>

DotEpub == <<".", "e", "p", "u", "b">>
DotPdf == <<".", "p", "d", "f">>

process_file(filename, st) ==
    LET book_meta == IF EndsWith(lower(filename), DotEpub)
                     THEN extract_epub_metadata(st)
                     ELSE IF EndsWith(lower(filename), DotPdf)
                          THEN extract_pdf_metadata(st)
                          ELSE <<>>
    IN  IF book_meta # <<>>
        THEN <<[title |-> book_meta[1].title, authors |-> book_meta[1].authors,
                publisher |-> book_meta[1].publisher, filename |-> filename]>>
        ELSE <<>>

(***************************************************************************)
(* The external endpoint: normalize_publishers_batch_ai.                   *)
(***************************************************************************)
chunk_size == 50

\* chunks = [publisher_list[i:i + chunk_size] for i in range(0, len, chunk_size)]
Chunks(publisher_list) ==
    [c \in 1..((Len(publisher_list) + chunk_size - 1) \div chunk_size) |->
        SubSeq(publisher_list, (c - 1) * chunk_size + 1,
               IF c * chunk_size < Len(publisher_list)
               THEN c * chunk_size ELSE Len(publisher_list))]

(***************************************************************************)
(* The environment the model explores: a directory of two documents and a  *)
(* note, the documents' possible contents, the rules files, the answers of *)
(* the endpoint.                                                           *)
(***************************************************************************)
A_EPUB == <<"a", ".", "e", "p", "u", "b">>
B_PDF == <<"b", ".", "P", "D", "F">>
NOTES_TXT == <<"n", ".", "t", "x", "t">>
DirEntries == {A_EPUB, B_PDF, NOTES_TXT}
Documents == {A_EPUB, B_PDF}

PubAb == <<"A", "b">>
PubCd == <<"C", "d">>
TitleT == <<"T">>
AuthorZ == <<"Z">>

Corrupt == [ok |-> FALSE, title |-> <<>>, authors |-> <<>>, publisher |-> <<>>]

Embedded(p) ==
    [ok |-> TRUE, title |-> <<TitleT>>, authors |-> <<AuthorZ>>, publisher |-> p]

Contents(f) ==
    IF f = A_EPUB
    THEN {Corrupt, Embedded(<<PubAb>>)}
    ELSE {Embedded(<<>>), Embedded(<<PubAb>>), Embedded(<<PubCd>>)}

CanonX == <<"X">>
CanonY == <<"Y">>
CanonZ == <<"Z", "z">>
CanonW == <<"W">>
CanonN == <<"N">>
CanonQ == <<"Q">>

NoRulesFile == [exists |-> FALSE, rows |-> <<>>]
RulesFile(rows) == [exists |-> TRUE, rows |-> rows]

\* "X","a" / (blank line) / "Y"," AB ","" / "Z","cd" / "W","c","d" :
\* for "Ab" the longer keyword is in a later rule, for "Cd" in an earlier one
RowsLongest ==
    <<<<CanonX, <<"a">>>>, <<>>, <<CanonY, <<" ", "A", "B", " ">>, EmptyStr>>,
      <<CanonZ, <<"c", "d">>>>, <<CanonW, <<"c">>, <<"d">>>>>>
\* "X","b" / "Y","a" / "N","null" : two keywords of the same length; a keyword "null"
RowsTie == <<<<CanonX, <<"b">>>>, <<CanonY, <<"a">>>>, <<CanonN, Null>>>>

RulesFiles == {NoRulesFile, RulesFile(RowsLongest), RulesFile(RowsTie)}

\* The objects a response can hold for a chunk: JSON object keys are strings,
\* so a None of the chunk (sent as null) cannot come back as a key.  A response
\* may omit names of the chunk, and a response that answers them all may also
\* hold a name that was not in the chunk.
ExtraKeys == {PubAb}
ResponseKeys(chunk) == {n \in SeqToSet(chunk) : n # None}
Responses(chunk) ==
    {[k \in K |-> CanonQ] :
        K \in (SUBSET ResponseKeys(chunk)) \cup {ResponseKeys(chunk) \cup ExtraKeys}}

\* The flags main reads before the resolution step.
Options == [force_reload : BOOLEAN, force_normalize : BOOLEAN]

\* How open(prompt_filepath) and f.read() of line 357 end: the template is
\* read, the file is missing (FileNotFoundError, caught at line 361), or the
\* file is there and cannot be read (another OSError, or UnicodeDecodeError,
\* which no handler catches).  "unread": line 357 is not reached.
PromptOutcomes == {"unread", "read", "missing", "denied"}

\* What lines 354-363 read: --ai, API_KEY set, the prompt file, -v.  These are
\* fixed when main starts; nothing but printing reads them earlier, so the
\* model draws them where they are first read, and one that the conditions of
\* lines 354-358 never come to read keeps its default.
AiOptions(pending, calls) ==
    {o \in [use_ai : BOOLEAN, api_key : BOOLEAN, prompt : PromptOutcomes,
            verbose : BOOLEAN] :
        /\ calls >= MaxAiCalls => ~(o.use_ai /\ o.api_key /\ o.prompt = "read")
        /\ o.use_ai => pending # <<>>
        /\ o.api_key => o.use_ai
        /\ o.prompt # "unread" <=> o.api_key
        /\ o.verbose => o.prompt = "read"}

(***************************************************************************)
(* State.                                                                  *)
(***************************************************************************)
VARIABLES
    files,              \* the documents of the directory: [exists, mtime, content]
    mods,               \* modifications and deletions made so far
    ai_calls,           \* runs that have called the external endpoint so far
    rules_file,         \* the rules CSV
    meta_file,          \* metadata_cache.json
    pub_file,           \* publisher_cache.json
    catalog_file,       \* the output JSON file
    pc,                 \* position of the main thread
    run,                \* invocations of main() so far
    opts,               \* --force-reload, --force-normalize of this invocation
    ai_opts,            \* --ai, -v, API_KEY, prompt file found, of this invocation
    exit,               \* how the try block of this invocation was left
    metadata_cache, publisher_cache, rules,
    all_files_in_dir, raw_metadata_list, files_to_process,
    check_futures,      \* step 1 pool: per file [state, cached_entry, seen, result]
    extract_futures,    \* step 2 pool: per file [state, book_meta, mtime]
    processed_count,
    all_publishers,     \* the names the loop of line 337 has still to visit
    publisher_map, publishers_for_ai,
    tier,               \* per name visited: the branch of the loop it took
    ai_gate,            \* the branch of lines 354-363 taken
    ai,                 \* normalize_publishers_batch_ai: [chunks, i, all_normalized_maps,
                        \*   text_bound, requests]
    ai_results,
    final_metadata,
    start_mods,         \* the value of mods when this invocation started
    prev                \* what the previous invocation left, for comparison

envVars == <<files, mods, rules_file>>

diskVars == <<meta_file, pub_file, catalog_file>>
ctlVars == <<run, opts, ai_opts, start_mods, prev, ai_calls>>
cacheVars == <<metadata_cache, publisher_cache, rules>>
step1Vars == <<all_files_in_dir, raw_metadata_list, files_to_process, check_futures>>
step2Vars == <<extract_futures, processed_count>>
resolveVars == <<all_publishers, publisher_map, publishers_for_ai, tier>>
aiVars == <<ai_gate, ai, ai_results>>

vars == <<files, mods, ai_calls, rules_file, meta_file, pub_file, catalog_file, pc, run, opts,
          ai_opts,
          exit, metadata_cache, publisher_cache, rules, all_files_in_dir,
          raw_metadata_list, files_to_process, check_futures, extract_futures,
          processed_count, all_publishers, publisher_map, publishers_for_ai, tier,
          ai_gate, ai, ai_results, final_metadata, start_mods, prev>>

NoOptions == [force_reload |-> FALSE, force_normalize |-> FALSE]

NoAiOptions ==
    [use_ai |-> FALSE, verbose |-> FALSE, api_key |-> FALSE, prompt |-> "unread"]

NoAi == [chunks |-> <<>>, i |-> 0, all_normalized_maps |-> EmptyDict,
         text_bound |-> FALSE, requests |-> <<>>]

NoCatalog == [kind |-> "absent", data |-> EmptyDict]

\* Whether the previous invocation ran to its end and wrote its catalog, and if
\* so the value of mods when it started.
NoPrev == [wrote_catalog |-> FALSE, mods |-> 0]

\* The positions inside the try block of main (lines 280-434).
TryStages ==
    {"list", "check", "extract", "resolve", "ai", "assemble", "symlink", "output", "dump"}

Init ==
    /\ \/ /\ files \in [Documents -> {[exists |-> TRUE, mtime |-> 1, content |-> c] :
                                          c \in UNION {Contents(f) : f \in Documents}}]
          /\ \A f \in Documents : files[f].content \in Contents(f)
       \/ files = [f \in Documents |->                       \* an empty directory
                      [exists |-> FALSE, mtime |-> 1, content |-> Corrupt]]
    /\ mods = 0
    /\ ai_calls = 0
    /\ rules_file \in RulesFiles
    /\ \E found \in CacheFilesAtStart :
          /\ meta_file = found[1]
          /\ pub_file = found[2]
    /\ catalog_file = NoCatalog
    /\ pc = "idle"
    /\ run = 0
    /\ opts = NoOptions
    /\ ai_opts = NoAiOptions
    /\ exit = ""
    /\ metadata_cache = EmptyDict
    /\ publisher_cache = EmptyDict
    /\ rules = <<>>
    /\ all_files_in_dir = {}
    /\ raw_metadata_list = <<>>
    /\ files_to_process = {}
    /\ check_futures = EmptyDict
    /\ extract_futures = EmptyDict
    /\ processed_count = 0
    /\ all_publishers = <<>>
    /\ publisher_map = EmptyDict
    /\ publishers_for_ai = <<>>
    /\ tier = EmptyDict
    /\ ai_gate = ""
    /\ ai = NoAi
    /\ ai_results = EmptyDict
    /\ final_metadata = EmptyDict
    /\ start_mods = 0
    /\ prev = NoPrev

(***************************************************************************)
(* The environment: a document is rewritten (or touched) or deleted,       *)
(* between runs or during a run.  Nothing but the program's reads of the   *)
(* file observes the moment of a change, so the model makes each change    *)
(* where a read of that file comes next: before the next listing, before   *)
(* the file's cache check, before its extraction, before its commit.       *)
(***************************************************************************)
ReadComesNext(f) ==
    \/ pc = "done" /\ run < MaxRuns
    \/ pc = "check" /\ f \in DOMAIN check_futures /\ check_futures[f].state = "queued"
    \/ pc = "extract" /\ f \in DOMAIN extract_futures
                      /\ extract_futures[f].state \in {"queued", "done"}

ModifyFile(f) ==
    /\ ReadComesNext(f)
    /\ mods < MaxMods
    /\ files[f].exists
    /\ files[f].mtime < MaxMtime
    /\ \E c \in Contents(f) :
          files' = [files EXCEPT ![f] = [exists |-> TRUE, mtime |-> @.mtime + 1,
                                         content |-> c]]
    /\ mods' = mods + 1
    /\ UNCHANGED <<rules_file, diskVars, pc, ctlVars, exit, cacheVars, step1Vars,
                   step2Vars, resolveVars, aiVars, final_metadata>>

DeleteFile(f) ==
    /\ ReadComesNext(f)
    /\ mods < MaxMods
    /\ files[f].exists
    /\ files' = [files EXCEPT ![f].exists = FALSE]
    /\ mods' = mods + 1
    /\ UNCHANGED <<rules_file, diskVars, pc, ctlVars, exit, cacheVars, step1Vars,
                   step2Vars, resolveVars, aiVars, final_metadata>>

(***************************************************************************)
(* main, lines 227-278: flags, load_cache twice, load_rules_from_csv.      *)
(***************************************************************************)
StartRun(o) ==
    /\ pc \in {"idle", "done"}
    /\ run < MaxRuns
    /\ run' = run + 1
    /\ ai_calls' = ai_calls
    /\ opts' = o
    /\ ai_opts' = NoAiOptions
    /\ start_mods' = mods
    /\ prev' = IF exit = "ok"
               THEN [wrote_catalog |-> TRUE, mods |-> start_mods]
               ELSE NoPrev
    /\ IF load_cache_raises(meta_file)
          \/ (~o.force_normalize /\ load_cache_raises(pub_file))
       THEN /\ pc' = "done"                \* the exception leaves main at line 271 or 276
            /\ exit' = "loaderror"
            /\ metadata_cache' = EmptyDict
            /\ publisher_cache' = EmptyDict
            /\ rules' = <<>>
       ELSE /\ pc' = "list"
            /\ exit' = ""
            /\ metadata_cache' = load_cache(meta_file)
            /\ publisher_cache' =
                  IF o.force_normalize THEN EmptyDict ELSE load_cache(pub_file)
            /\ rules' = load_rules_from_csv(rules_file)
    /\ all_files_in_dir' = {}
    /\ raw_metadata_list' = <<>>
    /\ files_to_process' = {}
    /\ check_futures' = EmptyDict
    /\ extract_futures' = EmptyDict
    /\ processed_count' = 0
    /\ all_publishers' = <<>>
    /\ publisher_map' = EmptyDict
    /\ publishers_for_ai' = <<>>
    /\ tier' = EmptyDict
    /\ ai_gate' = ""
    /\ ai' = NoAi
    /\ ai_results' = EmptyDict
    /\ final_metadata' = EmptyDict
    /\ UNCHANGED <<envVars, diskVars>>

(***************************************************************************)
(* Step 1, lines 281-305: list the directory, check every file against the *)
(* cache in a pool.                                                        *)
(***************************************************************************)
\* seen: the modification time the task read, kept for the record.
Queued(entry) ==
    [state |-> "queued", cached_entry |-> entry, seen |-> <<>>,
     result |-> [status |-> "", data |-> <<>>]]

\* The listing of a run whose --force-reload empties the metadata cache.
ListDir_Invalidate ==
    /\ pc = "list"
    /\ LET listed == {f \in DirEntries :
                         /\ f \in Documents => files[f].exists
                         /\ \/ EndsWith(lower(f), DotEpub)
                            \/ EndsWith(lower(f), DotPdf)}
       IN  /\ all_files_in_dir' = listed
           /\ IF listed = {}
              THEN /\ pc' = "save_meta"
                   /\ exit' = "nofiles"
                   /\ UNCHANGED <<files_to_process, check_futures, metadata_cache>>
              ELSE /\ pc' = "check"
                   /\ exit' = exit
                   /\ IF opts.force_reload
                      THEN /\ files_to_process' = listed
                           /\ check_futures' = EmptyDict
                           /\ metadata_cache' = EmptyDict
                      ELSE /\ files_to_process' = {}
                           /\ check_futures' =
                                 [f \in listed |-> Queued(Get(metadata_cache, f))]
                           /\ UNCHANGED metadata_cache
    /\ UNCHANGED <<envVars, diskVars, ctlVars, publisher_cache, rules, raw_metadata_list,
                   step2Vars, resolveVars, aiVars, final_metadata>>

ListDir ==
    /\ pc = "list"
    /\ LET listed == {f \in DirEntries :
                         /\ f \in Documents => files[f].exists
                         /\ \/ EndsWith(lower(f), DotEpub)
                            \/ EndsWith(lower(f), DotPdf)}
       IN  /\ all_files_in_dir' = listed
           /\ IF listed = {}
              THEN /\ pc' = "save_meta"                     \* return, line 283
                   /\ exit' = "nofiles"
                   /\ UNCHANGED <<files_to_process, check_futures>>
              ELSE /\ pc' = "check"
                   /\ exit' = exit
                   /\ IF opts.force_reload
                      THEN /\ files_to_process' = listed
                           /\ check_futures' = EmptyDict
                      ELSE /\ files_to_process' = {}
                           /\ check_futures' =
                                 [f \in listed |-> Queued(Get(metadata_cache, f))]
    /\ UNCHANGED <<envVars, diskVars, ctlVars, cacheVars, raw_metadata_list,
                   step2Vars, resolveVars, aiVars, final_metadata>>

\* A worker thread runs check_file_cache for one file.
CheckWorker(f) ==
    /\ pc = "check"
    /\ f \in DOMAIN check_futures
    /\ check_futures[f].state = "queued"
    /\ check_futures' =
          [check_futures EXCEPT ![f].state = "done",
               ![f].seen = getmtime(files[f]),
               ![f].result = check_file_cache(files[f], check_futures[f].cached_entry)]
    /\ UNCHANGED <<envVars, diskVars, pc, ctlVars, exit, cacheVars, all_files_in_dir,
                   raw_metadata_list, files_to_process, step2Vars, resolveVars,
                   aiVars, final_metadata>>

\* The main thread takes one completed future, lines 297-300.
CheckCollect(f) ==
    /\ pc = "check"
    /\ f \in DOMAIN check_futures
    /\ check_futures[f].state = "done"
    /\ check_futures' = [check_futures EXCEPT ![f].state = "collected"]
    /\ IF check_futures[f].result.status = "HIT"
       THEN /\ raw_metadata_list' =
                  Append(raw_metadata_list, check_futures[f].result.data[1])
            /\ UNCHANGED files_to_process
       ELSE /\ files_to_process' = files_to_process \cup {f}
            /\ UNCHANGED raw_metadata_list
    /\ UNCHANGED <<envVars, diskVars, pc, ctlVars, exit, cacheVars, all_files_in_dir,
                   step2Vars, resolveVars, aiVars, final_metadata>>

(***************************************************************************)
(* Step 1b, lines 307-329: extract the files to process in a pool; the     *)
(* main thread commits each record to the metadata cache.                  *)
(***************************************************************************)
SubmitExtract ==
    /\ pc = "check"
    /\ \A f \in DOMAIN check_futures : check_futures[f].state = "collected"
    /\ pc' = "extract"
    /\ extract_futures' =
          [f \in files_to_process |->
              [state |-> "queued", book_meta |-> <<>>, mtime |-> <<>>]]
    /\ processed_count' = 0
    /\ UNCHANGED <<envVars, diskVars, ctlVars, exit, cacheVars, step1Vars,
                   resolveVars, aiVars, final_metadata>>

\* A worker that stores its record in the metadata cache itself.
ExtractWorker_Commits(f) ==
    /\ pc = "extract"
    /\ f \in DOMAIN extract_futures
    /\ extract_futures[f].state = "queued"
    /\ extract_futures' =
          [extract_futures EXCEPT ![f].state = "done",
                                  ![f].book_meta = process_file(f, files[f])]
    /\ metadata_cache' =
          IF process_file(f, files[f]) # <<>>
          THEN Put(metadata_cache, f, [mtime |-> files[f].mtime,
                                       metadata |-> process_file(f, files[f])[1]])
          ELSE metadata_cache
    /\ UNCHANGED <<envVars, diskVars, pc, ctlVars, exit, publisher_cache, rules, step1Vars,
                   processed_count, resolveVars, aiVars, final_metadata>>

\* A worker thread runs process_file for one file.
ExtractWorker(f) ==
    /\ pc = "extract"
    /\ f \in DOMAIN extract_futures
    /\ extract_futures[f].state = "queued"
    /\ extract_futures' =
          [extract_futures EXCEPT ![f].state = "done",
                                  ![f].book_meta = process_file(f, files[f])]
    /\ UNCHANGED <<envVars, diskVars, pc, ctlVars, exit, cacheVars, step1Vars,
                   processed_count, resolveVars, aiVars, final_metadata>>

\* The commit with a fingerprint that is not the file's.
Commit_Stale(cache, file_path, st, book_meta) ==
    Put(cache, file_path, [mtime |-> 0, metadata |-> book_meta])

\* The cache after lines 318-322 for a record of file_path.
Commit(cache, file_path, st, book_meta) ==
    IF getmtime(st) # <<>>
    THEN Put(cache, file_path, [mtime |-> getmtime(st)[1], metadata |-> book_meta])
    ELSE cache                                             \* FileNotFoundError

\* The collection of a future that drops the file's cache entry when the
\* extraction has failed.
ExtractCollect_DropEntry(f) ==
    /\ pc = "extract"
    /\ f \in DOMAIN extract_futures
    /\ extract_futures[f].state = "done"
    /\ extract_futures' =
          [extract_futures EXCEPT ![f].state = "collected",
               ![f].mtime = IF extract_futures[f].book_meta # <<>>
                            THEN getmtime(files[f]) ELSE <<>>]
    /\ IF extract_futures[f].book_meta # <<>>
       THEN /\ raw_metadata_list' =
                  Append(raw_metadata_list, extract_futures[f].book_meta[1])
            /\ metadata_cache' =
                  Commit(metadata_cache, f, files[f], extract_futures[f].book_meta[1])
       ELSE /\ raw_metadata_list' = raw_metadata_list
            /\ metadata_cache' =
                  [k \in (DOMAIN metadata_cache) \ {f} |-> metadata_cache[k]]
    /\ processed_count' = processed_count + 1
    /\ UNCHANGED <<envVars, diskVars, pc, ctlVars, exit, publisher_cache, rules,
                   all_files_in_dir, files_to_process, check_futures, resolveVars,
                   aiVars, final_metadata>>

\* The collection that counts only the futures that brought a record.
ExtractCollect_CountRecords(f) ==
    /\ pc = "extract"
    /\ f \in DOMAIN extract_futures
    /\ extract_futures[f].state = "done"
    /\ extract_futures' =
          [extract_futures EXCEPT ![f].state = "collected",
               ![f].mtime = IF extract_futures[f].book_meta # <<>>
                            THEN getmtime(files[f]) ELSE <<>>]
    /\ IF extract_futures[f].book_meta # <<>>
       THEN /\ raw_metadata_list' =
                  Append(raw_metadata_list, extract_futures[f].book_meta[1])
            /\ metadata_cache' =
                  IF getmtime(files[f]) # <<>>
                  THEN Put(metadata_cache, f,
                           [mtime |-> files[f].mtime,
                            metadata |-> extract_futures[f].book_meta[1]])
                  ELSE metadata_cache
            /\ processed_count' = processed_count + 1
       ELSE UNCHANGED <<raw_metadata_list, metadata_cache, processed_count>>
    /\ UNCHANGED <<envVars, diskVars, pc, ctlVars, exit, publisher_cache, rules,
                   all_files_in_dir, files_to_process, check_futures, resolveVars,
                   aiVars, final_metadata>>

\* The collection that commits to the cache only the first future to complete.
ExtractCollect_FirstOnly(f) ==
    /\ pc = "extract"
    /\ f \in DOMAIN extract_futures
    /\ extract_futures[f].state = "done"
    /\ extract_futures' =
          [extract_futures EXCEPT ![f].state = "collected",
               ![f].mtime = IF extract_futures[f].book_meta # <<>>
                            THEN getmtime(files[f]) ELSE <<>>]
    /\ IF extract_futures[f].book_meta # <<>>
       THEN /\ raw_metadata_list' =
                  Append(raw_metadata_list, extract_futures[f].book_meta[1])
            /\ metadata_cache' =
                  IF processed_count = 0
                  THEN Put(metadata_cache, f,
                           [mtime |-> files[f].mtime,
                            metadata |-> extract_futures[f].book_meta[1]])
                  ELSE metadata_cache
       ELSE UNCHANGED <<raw_metadata_list, metadata_cache>>
    /\ processed_count' = processed_count + 1
    /\ UNCHANGED <<envVars, diskVars, pc, ctlVars, exit, publisher_cache, rules,
                   all_files_in_dir, files_to_process, check_futures, resolveVars,
                   aiVars, final_metadata>>

\* The main thread takes one completed future, lines 313-323.  The future's
\* mtime keeps, for the record, what line 319 read.
ExtractCollect(f) ==
    /\ pc = "extract"
    /\ f \in DOMAIN extract_futures
    /\ extract_futures[f].state = "done"
    /\ extract_futures' =
          [extract_futures EXCEPT ![f].state = "collected",
               ![f].mtime = IF extract_futures[f].book_meta # <<>>
                            THEN getmtime(files[f]) ELSE <<>>]
    /\ IF extract_futures[f].book_meta # <<>>
       THEN /\ raw_metadata_list' =
                  Append(raw_metadata_list, extract_futures[f].book_meta[1])
            /\ metadata_cache' =
                  Commit(metadata_cache, f, files[f], extract_futures[f].book_meta[1])
       ELSE UNCHANGED <<raw_metadata_list, metadata_cache>>
    /\ processed_count' = processed_count + 1
    /\ UNCHANGED <<envVars, diskVars, pc, ctlVars, exit, publisher_cache, rules,
                   all_files_in_dir, files_to_process, check_futures, resolveVars,
                   aiVars, final_metadata>>

(***************************************************************************)
(* Step 2, lines 331-351: the distinct publishers, each resolved from the  *)
(* publisher cache, else by the rules, else left for the endpoint.         *)
(***************************************************************************)
\* The orders in which a Python set of these elements can be iterated.
IterationOrders(S) == {q \in [1..Cardinality(S) -> S] : SeqToSet(q) = S}

CollectPublishers ==
    /\ pc = "extract"
    /\ \A f \in DOMAIN extract_futures : extract_futures[f].state = "collected"
    /\ all_publishers' \in
          IterationOrders({raw_metadata_list[i].publisher :
                              i \in 1..Len(raw_metadata_list)})
    /\ publisher_map' = EmptyDict
    /\ publishers_for_ai' = <<>>
    /\ tier' = EmptyDict
    /\ pc' = "resolve"
    /\ UNCHANGED <<envVars, diskVars, ctlVars, exit, cacheVars, step1Vars, step2Vars,
                   aiVars, final_metadata>>

ResolveName ==
    /\ pc = "resolve"
    /\ all_publishers # <<>>
    /\ LET name == Head(all_publishers)
           r == ResolveTier(name, publisher_cache, rules)
       IN  /\ tier' = Put(tier, name, r.tier)
           /\ IF r.tier = "pending"
              THEN /\ publishers_for_ai' = Append(publishers_for_ai, name)
                   /\ UNCHANGED <<publisher_map, publisher_cache>>
              ELSE /\ publisher_map' = Put(publisher_map, name, r.value[1])
                   /\ publisher_cache' =
                         IF r.tier = "rule"
                         THEN Put(publisher_cache, name, r.value[1])
                         ELSE publisher_cache
                   /\ UNCHANGED publishers_for_ai
    /\ all_publishers' = Tail(all_publishers)
    /\ UNCHANGED <<envVars, diskVars, pc, ctlVars, exit, metadata_cache, rules,
                   step1Vars, step2Vars, aiVars, final_metadata>>

(***************************************************************************)
(* Lines 353-363: the external step and its gate.                          *)
(***************************************************************************)
\* The gate without the handling of the prompt file.
Gate_NoPromptCheck(pending, o) ==
    IF pending # <<>> /\ o.use_ai
    THEN IF ~o.api_key THEN "no_key" ELSE "call"
    ELSE "skip"

\* Which of the branches of lines 354-363 is taken.
Gate(pending, o) ==
    IF pending # <<>> /\ o.use_ai
    THEN IF ~o.api_key THEN "no_key"
         ELSE IF o.prompt = "missing" THEN "no_prompt"
         ELSE IF o.prompt = "read" THEN "call"
         ELSE "raise"
    ELSE "skip"

AiGate ==
    /\ pc = "resolve"
    /\ all_publishers = <<>>
    /\ \E o \in AiOptions(publishers_for_ai, ai_calls) :
          LET g == Gate(publishers_for_ai, o)
          IN  /\ ai_opts' = o
              /\ ai_gate' = g
              /\ ai_calls' = IF g = "call" THEN ai_calls + 1 ELSE ai_calls
              /\ ai' = IF g = "call"
                       THEN [NoAi EXCEPT !.chunks = Chunks(publishers_for_ai)]
                       ELSE NoAi
              /\ pc' = CASE g = "call" -> "ai"
                          [] g = "raise" -> "save_meta"
                          [] OTHER -> "assemble"
              /\ exit' = IF g = "raise" THEN "error" ELSE exit
    /\ UNCHANGED <<envVars, diskVars, run, opts, start_mods, prev, cacheVars,
                   step1Vars, step2Vars, resolveVars, ai_results, final_metadata>>

\* What one pass of the loop body of lines 131-150 does for each way it can
\* end:
\*   "format"      prompt_template.format raises at line 136 (a template with
\*                 other braces than the placeholder), before any request
\*   "transport"   requests raises RequestException (network, timeout, HTTP
\*                 status, body that is not JSON)
\*   "nokey"       the body lacks candidates/content/parts/text: KeyError or
\*                 IndexError at line 143, before ai_response_text is assigned
\*   "unparsable"  the text is not JSON: JSONDecodeError at line 145
\*   "badshape"    the text is JSON but no object of pairs: dict.update raises
\*                 TypeError or ValueError, which no handler catches
\*   "ok"          the text is a JSON object m
\* The result: the new loop state, and whether an exception leaves the function.
ChunkStep(a, verbose, outcome, m) ==
    LET sent == [a EXCEPT !.i = @ + 1,
                          !.requests = Append(@, a.chunks[a.i + 1])]
    IN  CASE outcome = "format" -> [ai |-> a, raised |-> TRUE]
          [] outcome = "transport" -> [ai |-> sent, raised |-> FALSE]
          [] outcome = "nokey" ->
                [ai |-> sent, raised |-> verbose /\ ~a.text_bound]
          [] outcome = "unparsable" ->
                [ai |-> [sent EXCEPT !.text_bound = TRUE], raised |-> FALSE]
          [] outcome = "badshape" ->
                [ai |-> [sent EXCEPT !.text_bound = TRUE], raised |-> TRUE]
          [] OTHER ->
                [ai |-> [sent EXCEPT !.text_bound = TRUE,
                                     !.all_normalized_maps = Update(@, m)],
                 raised |-> FALSE]

\* The chunk the loop of line 131 takes next.
NextChunk == ai.chunks[ai.i + 1]

\* One pass of the loop body, the endpoint's object drawn from answers.
AiChunkFrom(answers) ==
    /\ pc = "ai"
    /\ ai.i < Len(ai.chunks)
    /\ \E outcome \in {"format", "transport", "nokey", "unparsable", "badshape", "ok"} :
       \E m \in answers :
          /\ outcome # "ok" => m = EmptyDict
          /\ outcome = "format" => ai.i = 0          \* the template is the same for every chunk
          /\ LET r == ChunkStep(ai, ai_opts.verbose, outcome, m)
             IN  /\ ai' = r.ai
                 /\ IF r.raised
                    THEN /\ pc' = "save_meta"
                         /\ exit' = "error"
                    ELSE /\ pc' = pc
                         /\ exit' = exit
    /\ UNCHANGED <<envVars, diskVars, ctlVars, cacheVars, step1Vars, step2Vars,
                   resolveVars, ai_gate, ai_results, final_metadata>>

AiChunk == AiChunkFrom(Responses(NextChunk))

\* normalize_publishers_batch_ai returns its all_normalized_maps, its other
\* locals end with it (the model keeps the requests it made); lines 359-361.
AiReturn ==
    /\ pc = "ai"
    /\ ai.i = Len(ai.chunks)
    /\ ai_results' = ai.all_normalized_maps
    /\ publisher_map' = Update(publisher_map, ai.all_normalized_maps)
    /\ publisher_cache' = Update(publisher_cache, ai.all_normalized_maps)
    /\ pc' = "assemble"
    /\ ai' = [ai EXCEPT !.all_normalized_maps = EmptyDict, !.text_bound = FALSE]
    /\ UNCHANGED <<envVars, diskVars, ctlVars, exit, metadata_cache, rules, step1Vars,
                   step2Vars, all_publishers, publishers_for_ai, tier, ai_gate,
                   final_metadata>>

(***************************************************************************)
(* Step 3, lines 372-381: assembly of the catalog.                         *)
(***************************************************************************)
bad_substrings ==
    << <<".", "i", "n", "d", "d">>, <<".", "d", "o", "c", "x">>, <<".", "d", "o", "c">>,
       <<".", "p", "d", "f">>, <<".", "q", "x", "d">>,
       <<"m","i","c","r","o","s","o","f","t"," ","w","o","r","d"," ","-">> >>

\* is_bad_title without the loop over bad_substrings.
is_bad_title_NoSubstrings(title) ==
    \/ title = EmptyStr
    \/ strip(title) = EmptyStr
    \/ lower(title) = <<"n", "/", "a">>

is_bad_title(title) ==
    \/ title = EmptyStr
    \/ strip(title) = EmptyStr
    \/ lower(title) = <<"n", "/", "a">>
    \/ \E i \in 1..Len(bad_substrings) : IsSubstring(bad_substrings[i], lower(title))

\* os.path.splitext(name)[0]: cut at the last dot, unless only dots precede it
splitext_root(name) ==
    LET dots == {i \in 1..Len(name) : name[i] = "."}
        last == IF dots = {} THEN 0 ELSE CHOOSE i \in dots : \A j \in dots : j <= i
    IN  IF last = 0 \/ \A j \in 1..(last - 1) : name[j] = "."
        THEN name
        ELSE SubSeq(name, 1, last - 1)

\* A catalog entry that takes the raw publisher for the canonical one.
CatalogEntry_RawOnly(raw_meta, pmap) ==
    [title |-> IF is_bad_title(raw_meta.title)
               THEN splitext_root(raw_meta.filename) ELSE raw_meta.title,
     authors |-> raw_meta.authors,
     publisher |-> raw_meta.publisher,
     publisher_normalized |-> raw_meta.publisher]

\* One catalog entry, lines 374-381.
CatalogEntry(raw_meta, pmap) ==
    [title |-> IF is_bad_title(raw_meta.title)
               THEN splitext_root(raw_meta.filename) ELSE raw_meta.title,
     authors |-> raw_meta.authors,
     publisher |-> raw_meta.publisher,
     publisher_normalized |-> IF raw_meta.publisher \in DOMAIN pmap
                              THEN pmap[raw_meta.publisher]
                              ELSE raw_meta.publisher]

RECURSIVE AssembleAll(_, _, _)
AssembleAll(records, pmap, acc) ==
    IF records = <<>> THEN acc
    ELSE AssembleAll(Tail(records), pmap,
                     Put(acc, Head(records).filename, CatalogEntry(Head(records), pmap)))

Assemble ==
    /\ pc = "assemble"
    /\ final_metadata' = AssembleAll(raw_metadata_list, publisher_map, EmptyDict)
    /\ pc' = "symlink"
    /\ UNCHANGED <<envVars, diskVars, ctlVars, exit, cacheVars, step1Vars, step2Vars,
                   resolveVars, aiVars>>

\* Step 4, lines 384-428: the symlink views; an OSError of a link is caught,
\* the two view directories are taken to be creatable.  The step writes none
\* of the modelled state.
Symlink ==
    /\ pc = "symlink"
    /\ pc' = "output"
    /\ UNCHANGED <<envVars, diskVars, ctlVars, exit, cacheVars, step1Vars, step2Vars,
                   resolveVars, aiVars, final_metadata>>

\* Line 431: open(output_filename, 'w') truncates the file, or raises IOError,
\* which line 434 catches.
OpenCatalog ==
    /\ pc = "output"
    /\ \E opened \in BOOLEAN :
          IF opened
          THEN /\ catalog_file' = [kind |-> "partial", data |-> EmptyDict]
               /\ pc' = "dump"
               /\ exit' = exit
          ELSE /\ catalog_file' = catalog_file
               /\ pc' = "save_meta"
               /\ exit' = "ioerror"
    /\ UNCHANGED <<envVars, meta_file, pub_file, ctlVars, cacheVars, step1Vars,
                   step2Vars, resolveVars, aiVars, final_metadata>>

\* Line 432: json.dump(final_metadata, f) runs to its end, or a write raises
\* IOError (a full disk), which line 434 catches: the file stays cut short.
DumpCatalog ==
    /\ pc = "dump"
    /\ \E written \in BOOLEAN :
          IF written
          THEN /\ catalog_file' = [kind |-> "json", data |-> final_metadata]
               /\ exit' = "ok"
          ELSE /\ catalog_file' = catalog_file
               /\ exit' = "ioerror"
    /\ pc' = "save_meta"
    /\ UNCHANGED <<envVars, meta_file, pub_file, ctlVars, cacheVars, step1Vars,
                   step2Vars, resolveVars, aiVars, final_metadata>>

(***************************************************************************)
(* Lines 436-443: KeyboardInterrupt anywhere in the try block, and the     *)
(* finally block that saves both caches.                                   *)
(***************************************************************************)
\* An interruption that ends the program without the finally block.
Interrupt_NoSave ==
    /\ pc \in TryStages
    /\ pc' = "done"
    /\ exit' = "interrupt"
    /\ all_files_in_dir' = {}
    /\ raw_metadata_list' = <<>>
    /\ files_to_process' = {}
    /\ check_futures' = EmptyDict
    /\ extract_futures' = EmptyDict
    /\ processed_count' = 0
    /\ all_publishers' = <<>>
    /\ publisher_map' = EmptyDict
    /\ publishers_for_ai' = <<>>
    /\ tier' = EmptyDict
    /\ ai_gate' = ""
    /\ ai' = NoAi
    /\ ai_results' = EmptyDict
    /\ final_metadata' = EmptyDict
    /\ UNCHANGED <<envVars, diskVars, ctlVars, cacheVars>>

\* The exception unwinds the try block: its pools, lists and loop variables are
\* dropped, the caches are what the finally block goes on to save.
Interrupt ==
    /\ pc \in TryStages
    /\ pc' = "save_meta"
    /\ exit' = "interrupt"
    /\ all_files_in_dir' = {}
    /\ raw_metadata_list' = <<>>
    /\ files_to_process' = {}
    /\ check_futures' = EmptyDict
    /\ extract_futures' = EmptyDict
    /\ processed_count' = 0
    /\ all_publishers' = <<>>
    /\ publisher_map' = EmptyDict
    /\ publishers_for_ai' = <<>>
    /\ tier' = EmptyDict
    /\ ai_gate' = ""
    /\ ai' = NoAi
    /\ ai_results' = EmptyDict
    /\ final_metadata' = EmptyDict
    /\ UNCHANGED <<envVars, diskVars, ctlVars, cacheVars>>

SaveMeta ==
    /\ pc = "save_meta"
    /\ meta_file' = save_cache(metadata_cache)
    /\ pc' = "save_pub"
    /\ UNCHANGED <<envVars, pub_file, catalog_file, ctlVars, exit, cacheVars,
                   step1Vars, step2Vars, resolveVars, aiVars, final_metadata>>

SavePub ==
    /\ pc = "save_pub"
    /\ pub_file' = save_cache(publisher_cache)
    /\ pc' = "done"
    /\ UNCHANGED <<envVars, meta_file, catalog_file, ctlVars, exit, cacheVars,
                   step1Vars, step2Vars, resolveVars, aiVars, final_metadata>>

Next ==
    \/ \E o \in Options : StartRun(o)
    \/ ListDir
    \/ \E f \in Documents : CheckWorker(f)
    \/ \E f \in Documents : CheckCollect(f)
    \/ SubmitExtract
    \/ \E f \in Documents : ExtractWorker(f)
    \/ \E f \in Documents : ExtractCollect(f)
    \/ CollectPublishers
    \/ ResolveName
    \/ AiGate
    \/ AiChunk
    \/ AiReturn
    \/ Assemble
    \/ Symlink
    \/ OpenCatalog
    \/ DumpCatalog
    \/ Interrupt
    \/ SaveMeta
    \/ SavePub
    \/ \E f \in Documents : ModifyFile(f)
    \/ \E f \in Documents : DeleteFile(f)

Spec == Init /\ [][Next]_vars

(***************************************************************************)
(* Properties.                                                             *)
(***************************************************************************)
\* The run went through detection and extraction and reached its end without
\* a user interruption.
RunEnded == pc = "done" /\ exit \in {"ok", "ioerror", "error"}

\* The publisher cache as main holds it when the loop of line 337 starts; the
\* file is not written before the run's end.
StartCache == IF opts.force_normalize THEN EmptyDict ELSE load_cache(pub_file)

InRun == pc \notin {"idle", "done"}

HasRecord(meta) == \E i \in 1..Len(raw_metadata_list) : raw_metadata_list[i] = meta

C2_CheckFileCache ==
    \A f \in DOMAIN check_futures :
        LET t == check_futures[f]
            valid == /\ t.cached_entry # <<>>
                     /\ t.seen # <<>>
                     /\ t.cached_entry[1].mtime = t.seen[1]
        IN  t.state \in {"done", "collected"} =>
                /\ t.result.status \in {"HIT", "MISS"}
                /\ t.result.status = "HIT" <=> valid
                /\ t.result.status = "HIT" => t.result.data = <<t.cached_entry[1].metadata>>
                /\ t.result.status = "MISS" => t.result.data = <<>>

\* One check is a HIT, and another is a MISS for a cached file that has
\* disappeared since the listing.
C2_Witness ==
    \E f, g \in DOMAIN check_futures :
        /\ check_futures[f].state = "done"
        /\ check_futures[f].result.status = "HIT"
        /\ check_futures[g].state = "done"
        /\ check_futures[g].cached_entry # <<>>
        /\ check_futures[g].seen = <<>>
        /\ check_futures[g].result.status = "MISS"

\* C3 as stated: when a run without --force-reload and --force-normalize
\* follows a run that wrote its catalog, and no file changed since that run
\* started, every scanned file is a HIT, nothing is handed to extraction and
\* the catalog about to be written equals the one on disk.
SecondRunUnchanged ==
    /\ pc = "output"
    /\ prev.wrote_catalog
    /\ prev.mods = mods
    /\ ~opts.force_reload

C3_AsStated ==
    (SecondRunUnchanged /\ ~opts.force_normalize) =>
        /\ \A f \in all_files_in_dir : check_futures[f].result.status = "HIT"
        /\ files_to_process = {}
        /\ final_metadata = catalog_file.data

\* C3 amended: under the same conditions, every file that has an entry in
\* the first run's catalog is a HIT, the files handed to extraction are
\* exactly the scanned files that produced no record in the first run, and,
\* without --force-normalize and with no name resolved by the endpoint in
\* the second run, the catalog equals the first run's.
C3_Idempotence ==
    SecondRunUnchanged =>
        /\ \A f \in all_files_in_dir :
              f \in DOMAIN catalog_file.data <=> check_futures[f].result.status = "HIT"
        /\ files_to_process = all_files_in_dir \ DOMAIN catalog_file.data
        /\ (~opts.force_normalize /\ ai_results = EmptyDict) =>
               final_metadata = catalog_file.data

\* A second run over two unchanged documents finds both cached, extracts
\* nothing and is about to write the same catalog, which holds a canonical
\* name that differs from the raw one.
C3_Witness ==
    /\ SecondRunUnchanged /\ ~opts.force_normalize
    /\ all_files_in_dir = Documents
    /\ files_to_process = {}
    /\ final_metadata = catalog_file.data
    /\ \E f \in DOMAIN final_metadata :
          final_metadata[f].publisher_normalized # final_metadata[f].publisher

Pending == SeqToSet(publishers_for_ai)

Sent == UNION {SeqToSet(ai.requests[i]) : i \in 1..Len(ai.requests)}

\* Some keyword of some rule is a substring of the lowercased name.
RuleMatches(name) ==
    \E i \in 1..Len(rules) : \E k \in 1..Len(rules[i].keywords) :
        IsSubstring(rules[i].keywords[k], lower(name))

LongestMatch(name) ==
    LET lens == UNION {{Len(rules[i].keywords[k]) : k \in 1..Len(rules[i].keywords)} :
                          i \in 1..Len(rules)}
        hits == {n \in lens :
                    \E i \in 1..Len(rules) : \E k \in 1..Len(rules[i].keywords) :
                        /\ Len(rules[i].keywords[k]) = n
                        /\ IsSubstring(rules[i].keywords[k], lower(name))}
    IN  IF hits = {} THEN 0 ELSE CHOOSE n \in hits : \A m \in hits : m <= n

\* The first rule that owns a matching keyword of that length.
LongestRule(name) ==
    LET owns(i) == \E k \in 1..Len(rules[i].keywords) :
                       /\ Len(rules[i].keywords[k]) = LongestMatch(name)
                       /\ IsSubstring(rules[i].keywords[k], lower(name))
    IN  CHOOSE i \in 1..Len(rules) : owns(i) /\ \A j \in 1..(i - 1) : ~owns(j)

C6_AsStated ==
    /\ None \notin DOMAIN tier
    /\ None \notin Pending
    /\ None \notin Sent
    /\ \A f \in DOMAIN final_metadata :
          final_metadata[f].publisher = None =>
              final_metadata[f].publisher_normalized = None

AfterTry == pc \in {"save_meta", "save_pub", "done"}

\* C7 as stated: a run that sent a request to the endpoint, for names other
\* than the absent one, and was not interrupted, leaves the pipeline stage by its end (catalog written, or its file not
\* opened), having made one request per chunk, with every name a response
\* resolved in the in-run map and, once saved, in the publisher cache file.
C7_AsStated ==
    (ai.requests # <<>> /\ AfterTry /\ None \notin Pending) =>
        /\ exit \in {"ok", "ioerror"}
        /\ Len(ai.requests) = Len(ai.chunks)
        /\ \A name \in DOMAIN ai_results :
              /\ name \in DOMAIN publisher_map
              /\ publisher_map[name] = ai_results[name]
              /\ pc = "done" =>
                    /\ JsonKey(name) \in DOMAIN pub_file.data
                    /\ pub_file.data[JsonKey(name)] = ai_results[name]

\* C8 as stated: when a run ends after its resolution step, with its catalog
\* written or after a request to the endpoint (the absent publisher not among
\* its pending names), it has written its catalog, every name that was left pending and that no
\* endpoint response resolved has its files in the catalog with
\* publisher_normalized equal to the raw publisher, and the saved publisher
\* cache has no entry for it.
C8_AsStated ==
    (/\ pc = "done" /\ None \notin Pending
     /\ exit = "ok" \/ (exit = "error" /\ ai.requests # <<>>)) =>
        /\ exit = "ok"
        /\ \A name \in DOMAIN tier :
              (tier[name] = "pending" /\ name \notin DOMAIN ai_results) =>
                  /\ \E f \in DOMAIN catalog_file.data :
                        catalog_file.data[f].publisher = name
                  /\ \A f \in DOMAIN catalog_file.data :
                        catalog_file.data[f].publisher = name =>
                            catalog_file.data[f].publisher_normalized = name
                  /\ JsonKey(name) \notin DOMAIN pub_file.data

Saved(cache, file) ==
    /\ file.kind = "json"
    /\ \A f \in DOMAIN cache : f \in DOMAIN file.data /\ file.data[f] = cache[f]

C10_Step ==
    /\ (pc \in TryStages /\ pc' \notin TryStages) => pc' = "save_meta"
    /\ (pc = "save_meta" /\ pc' # pc) =>
          /\ pc' = "save_pub"
          /\ Saved(metadata_cache, meta_file')
    /\ (pc = "save_pub" /\ pc' # pc) =>
          /\ pc' = "done"
          /\ pub_file' = save_cache(publisher_cache)
          /\ UNCHANGED meta_file
    /\ pc \in {"save_meta", "save_pub"} => UNCHANGED <<metadata_cache, publisher_cache>>

C10_State ==
    /\ (pc = "done" /\ exit # "loaderror") =>
          /\ Saved(metadata_cache, meta_file)
          /\ pub_file = save_cache(publisher_cache)
    /\ pc \in TryStages =>
       \A f \in DOMAIN check_futures :
          /\ check_futures[f].cached_entry = Get(load_cache(meta_file), f)
          /\ (/\ check_futures[f].state \in {"done", "collected"}
              /\ f \in DOMAIN meta_file.data
              /\ check_futures[f].seen = <<meta_file.data[f].mtime>>) =>
                    check_futures[f].result.status = "HIT"

\* C10: every step that leaves the pipeline stage (its end, the early
\* return, an exception, an interruption) leads to the save of the metadata
\* cache, which is followed by the save of the publisher cache; the saved
\* metadata cache holds every entry the cache in memory held at the exit;
\* and the next run checks each file against the saved entry, so that a
\* file whose fingerprint equals the saved one is a HIT.
C10_SaveOnEveryExit == []C10_State /\ [][C10_Step]_vars

\* A first run is interrupted after a record was committed, and ends with
\* that entry in the saved metadata cache.
C10_Witness ==
    /\ pc = "done" /\ exit = "interrupt" /\ run = 1
    /\ metadata_cache # EmptyDict
    /\ Saved(metadata_cache, meta_file)

\* C11 as stated: a run that the user interrupted does not end with a
\* catalog file that holds only part of the records (a file opened for
\* writing and not written to its end).
C11_AsStated ==
    (pc = "done" /\ exit = "interrupt") => catalog_file.kind # "partial"

\* The file's extraction task has been collected and had produced no record.
Failed(f) ==
    /\ f \in DOMAIN extract_futures
    /\ extract_futures[f].state = "collected"
    /\ extract_futures[f].book_meta = <<>>

C12_State ==
    /\ \A f \in DOMAIN extract_futures :
          Failed(f) =>
              /\ \A i \in 1..Len(raw_metadata_list) : raw_metadata_list[i].filename # f
              /\ f \notin DOMAIN final_metadata
              /\ (pc \in TryStages \/ pc = "save_meta") =>
                    Get(metadata_cache, f) = Get(load_cache(meta_file), f)
    /\ (pc \in TryStages \ {"list", "check", "extract"}) =>
          /\ DOMAIN extract_futures = files_to_process
          /\ processed_count = Cardinality(files_to_process)
          /\ \A g \in files_to_process :
                /\ extract_futures[g].state = "collected"
                /\ extract_futures[g].book_meta # <<>> =>
                      \E i \in 1..Len(raw_metadata_list) :
                          raw_metadata_list[i] = extract_futures[g].book_meta[1]

C12_Step ==
    \A f \in DOMAIN extract_futures :
        (/\ extract_futures[f].state = "done"
         /\ extract_futures[f].book_meta = <<>>
         /\ f \in DOMAIN extract_futures'
         /\ extract_futures'[f].state = "collected") =>
            /\ pc' = "extract" /\ exit' = exit
            /\ UNCHANGED <<metadata_cache, raw_metadata_list>>

\* C12: collecting a task whose extraction failed raises nothing and leaves
\* the run in its extraction stage, with the cache and the record list as
\* they were; the failing file has no record and no catalog entry, its
\* cache entry (or the absence of one) is what the run loaded; and the
\* stage is left only when every file handed to extraction has been
\* collected, each record produced being in the record list.
C12_ExtractionFailure == []C12_State /\ [][C12_Step]_vars

\* A run with --force-reload reaches its output step after one file, cached
\* by an earlier run, failed to parse and kept its entry, and another file
\* was extracted.
C12_Witness ==
    /\ pc = "output"
    /\ \E f, g \in DOMAIN extract_futures :
          /\ Failed(f)
          /\ f \in DOMAIN metadata_cache
          /\ extract_futures[g].book_meta # <<>>
          /\ g \in DOMAIN final_metadata

\* C13 as stated: no run fails at the loading of its caches, and a run that
\* finds a cache file absent, empty or with content that is not what
\* save_cache wrote starts with an empty store for that cache.
C13_AsStated ==
    /\ exit # "loaderror"
    /\ pc = "list" =>
          /\ meta_file.kind # "json" => metadata_cache = EmptyDict
          /\ pub_file.kind # "json" => publisher_cache = EmptyDict

\* The file produced a raw record in this run: its check was a HIT, or its
\* extraction gave a record.
ProducedRecord(f) ==
    \/ /\ f \in DOMAIN check_futures
       /\ check_futures[f].state = "collected"
       /\ check_futures[f].result.status = "HIT"
    \/ /\ f \in DOMAIN extract_futures
       /\ extract_futures[f].state = "collected"
       /\ extract_futures[f].book_meta # <<>>

\* C14: once assembled, the catalog has an entry for a file exactly when
\* the file produced a raw record in this run, no file has two records, and
\* the entry of each record carries the record's authors and raw publisher
\* and, as publisher_normalized, the in-run map's value for that publisher
\* if the map has one and the raw publisher otherwise.
C14_CatalogAssembly ==
    pc \in {"symlink", "output", "dump"} =>
        /\ \A f \in Documents : f \in DOMAIN final_metadata <=> ProducedRecord(f)
        /\ DOMAIN final_metadata \subseteq all_files_in_dir
        /\ \A i, j \in 1..Len(raw_metadata_list) :
              raw_metadata_list[i].filename = raw_metadata_list[j].filename => i = j
        /\ \A i \in 1..Len(raw_metadata_list) :
              LET r == raw_metadata_list[i]
                  e == final_metadata[r.filename]
              IN  /\ e.authors = r.authors
                  /\ e.publisher = r.publisher
                  /\ e.publisher_normalized =
                        IF r.publisher \in DOMAIN publisher_map
                        THEN publisher_map[r.publisher] ELSE r.publisher

\* A catalog is assembled from one cached and one newly extracted record,
\* one entry with a canonical name from the map and one with its raw name.
C14_Witness ==
    /\ pc = "output"
    /\ \E f, g \in DOMAIN final_metadata :
          /\ f \in DOMAIN check_futures /\ check_futures[f].result.status = "HIT"
          /\ g \in DOMAIN extract_futures
          /\ final_metadata[f].publisher_normalized # final_metadata[f].publisher
          /\ final_metadata[g].publisher_normalized = final_metadata[g].publisher
          /\ final_metadata[g].publisher # None

(***************************************************************************)
(* The assembly step on its own: one raw record with a title and a         *)
(* filename drawn from the sets below, handed to Assemble.                 *)
(***************************************************************************)
SampleTitles ==
    {EmptyStr, <<" ">>, <<" ", " ">>, NA, <<"n", "/", "a">>, <<"N", "/", "a">>,
     <<" ", "N", "/", "A">>, <<"N", "/", "A", "x">>, TitleT, <<"T", " ">>,
     <<"a", ".", "p", "d", "f">>, <<"A", ".", "P", "D", "F">>, <<"p", "d", "f">>,
     <<".", "p", "d">>, <<"x", ".", "d", "o", "c", "x">>, <<"x", ".", "D", "o", "c">>,
     <<".", "i", "n", "d", "d">>, <<"q", ".", "Q", "X", "D">>, <<"d", "o", "c">>,
     <<"M","i","c","r","o","s","o","f","t"," ","W","o","r","d"," ","-"," ","T">>,
     <<"m","i","c","r","o","s","o","f","t"," ","w","o","r","d">>}

SampleFilenames ==
    {A_EPUB, B_PDF, <<"c", ".", "d", ".", "p", "d", "f">>, <<".", "e", "p", "u", "b">>,
     <<".", ".", "p", "d", "f">>, <<"e", " ", "f", ".", "E", "P", "U", "B">>}

AssemblyInit ==
    /\ files = [f \in Documents |-> [exists |-> TRUE, mtime |-> 1,
                                     content |-> Embedded(<<>>)]]
    /\ mods = 0
    /\ ai_calls = 0
    /\ rules_file = NoRulesFile
    /\ meta_file = AbsentFile
    /\ pub_file = AbsentFile
    /\ catalog_file = NoCatalog
    /\ pc = "assemble"
    /\ run = 1
    /\ opts = NoOptions
    /\ ai_opts = NoAiOptions
    /\ exit = ""
    /\ metadata_cache = EmptyDict
    /\ publisher_cache = EmptyDict
    /\ rules = <<>>
    /\ all_files_in_dir = {}
    /\ \E t \in SampleTitles, n \in SampleFilenames :
          raw_metadata_list =
              <<[title |-> t, authors |-> <<AuthorZ>>, publisher |-> None, filename |-> n]>>
    /\ files_to_process = {}
    /\ check_futures = EmptyDict
    /\ extract_futures = EmptyDict
    /\ processed_count = 0
    /\ all_publishers = <<>>
    /\ publisher_map = EmptyDict
    /\ publishers_for_ai = <<>>
    /\ tier = EmptyDict
    /\ ai_gate = "skip"
    /\ ai = NoAi
    /\ ai_results = EmptyDict
    /\ final_metadata = EmptyDict
    /\ start_mods = 0
    /\ prev = NoPrev

AssemblySpec == AssemblyInit /\ [][Assemble]_vars

\* The strings the claim names, taken by the letter.
KnownBad ==
    {<<".", "i", "n", "d", "d">>, <<".", "d", "o", "c", "x">>, <<".", "d", "o", "c">>,
     <<".", "p", "d", "f">>, <<".", "q", "x", "d">>,
     <<"m","i","c","r","o","s","o","f","t"," ","w","o","r","d"," ","-">>}

Blank(title) == \A i \in 1..Len(title) : title[i] = " "

\* C15 as stated: the catalog title is the base name without its extension
\* when the extracted title is empty, is 'N/A' or contains one of the known
\* bad substrings, and is the extracted title unchanged in every other case.
C15_AsStated ==
    pc = "symlink" =>
        \A i \in 1..Len(raw_metadata_list) :
            LET r == raw_metadata_list[i]
                bad == \/ r.title = EmptyStr
                       \/ r.title = NA
                       \/ \E sub \in KnownBad : IsSubstring(sub, r.title)
            IN  final_metadata[r.filename].title =
                    IF bad THEN splitext_root(r.filename) ELSE r.title

\* C15 amended: the catalog title is the base name without its extension
\* when the extracted title is empty or blank, is 'N/A' in any letter case,
\* or contains one of the known bad substrings in any letter case, and is
\* the extracted title unchanged in every other case.
C15_TitleFallback ==
    pc = "symlink" =>
        \A i \in 1..Len(raw_metadata_list) :
            LET r == raw_metadata_list[i]
                bad == \/ Blank(r.title)
                       \/ lower(r.title) = lower(NA)
                       \/ \E sub \in KnownBad : IsSubstring(sub, lower(r.title))
            IN  final_metadata[r.filename].title =
                    IF bad THEN splitext_root(r.filename) ELSE r.title

\* A record whose title holds a document extension in capitals gets the
\* base name of its file, which has two dots, as its catalog title.
C15_Witness ==
    /\ pc = "symlink"
    /\ \E i \in 1..Len(raw_metadata_list) :
          /\ raw_metadata_list[i].title = <<"A", ".", "P", "D", "F">>
          /\ raw_metadata_list[i].filename = <<"c", ".", "d", ".", "p", "d", "f">>
          /\ final_metadata[raw_metadata_list[i].filename].title = <<"c", ".", "d">>

\* The stages of a run with --force-reload in which the metadata cache file
\* still holds what load_cache read at line 271.
ReloadRun ==
    /\ opts.force_reload
    /\ pc \in TryStages \cup {"save_meta"}
    /\ exit # "interrupt"

\* The extraction of f produced a record in this run.
Extracted(f) == f \in DOMAIN extract_futures /\ extract_futures[f].book_meta # <<>>

C16_State ==
    ReloadRun =>
        /\ check_futures = EmptyDict
        /\ pc \notin {"list", "check"} => DOMAIN extract_futures = all_files_in_dir
        /\ \A f \in DOMAIN load_cache(meta_file) :
              /\ f \in DOMAIN metadata_cache
              /\ IF /\ Extracted(f)
                    /\ extract_futures[f].state = "collected"
                    /\ extract_futures[f].mtime # <<>>
                 THEN metadata_cache[f] =
                          [mtime |-> extract_futures[f].mtime[1],
                           metadata |-> extract_futures[f].book_meta[1]]
                 ELSE metadata_cache[f] = load_cache(meta_file)[f]

C16_Step ==
    (opts.force_reload /\ InRun) =>
        /\ \A f \in DOMAIN metadata_cache :
              /\ f \in DOMAIN metadata_cache'
              /\ metadata_cache'[f] # metadata_cache[f] =>
                    /\ Extracted(f)
                    /\ extract_futures[f].state = "done"
                    /\ extract_futures'[f].state = "collected"
                    /\ files[f].exists
        /\ pc = "save_meta" => meta_file'.data = JsonRoundTrip(metadata_cache)

C17_AsStated ==
    \A f \in DOMAIN metadata_cache :
        (/\ f \in Documents
         /\ files[f].exists
         /\ metadata_cache[f].mtime = files[f].mtime) =>
            process_file(f, files[f]) = <<metadata_cache[f].metadata>>

\* In this step a worker of one of the two pools completes the task of f.
WorkerCompletes(f) ==
    \/ /\ f \in DOMAIN check_futures /\ f \in DOMAIN check_futures'
       /\ check_futures[f].state = "queued"
       /\ check_futures'[f].state = "done"
    \/ /\ f \in DOMAIN extract_futures /\ f \in DOMAIN extract_futures'
       /\ extract_futures[f].state = "queued"
       /\ extract_futures'[f].state = "done"

\* In this step the main thread takes the result of the task of f.
OwnerCollects(f) ==
    \/ /\ f \in DOMAIN check_futures /\ f \in DOMAIN check_futures'
       /\ check_futures[f].state = "done"
       /\ check_futures'[f].state = "collected"
    \/ /\ f \in DOMAIN extract_futures /\ f \in DOMAIN extract_futures'
       /\ extract_futures[f].state = "done"
       /\ extract_futures'[f].state = "collected"

C18_Step ==
    /\ (\E f \in Documents : WorkerCompletes(f)) =>
           UNCHANGED <<metadata_cache, publisher_cache, raw_metadata_list>>
    /\ (/\ pc \in {"check", "extract"}
        /\ pc' \in {"check", "extract"}
        /\ <<metadata_cache, publisher_cache, raw_metadata_list>>' #
               <<metadata_cache, publisher_cache, raw_metadata_list>>) =>
           /\ Cardinality({f \in Documents : OwnerCollects(f)}) = 1
           /\ \A f \in Documents : ~WorkerCompletes(f)

\* C18: a step in which a worker of the cache-check pool or of the extraction
\* pool completes its task leaves the metadata cache, the publisher cache and
\* the raw record list as they were; while the pools run, every step that
\* changes one of the three is the main thread taking the result of exactly
\* one task, and no worker completes in that step.
C18_OwnerWrites == [][C18_Step]_vars

\* An extraction worker has produced a record that the main thread has not
\* taken yet: neither the record list nor the cache holds it, while another
\* file's record has been committed by the main thread.
C18_Witness ==
    /\ pc = "extract"
    /\ \E f, g \in DOMAIN extract_futures :
          /\ extract_futures[f].state = "done"
          /\ extract_futures[f].book_meta # <<>>
          /\ ~HasRecord(extract_futures[f].book_meta[1])
          /\ f \notin DOMAIN metadata_cache
          /\ extract_futures[g].state = "collected"
          /\ g \in DOMAIN metadata_cache
          /\ HasRecord(metadata_cache[g].metadata)

(***************************************************************************)
(* What a run makes of its inputs (the files, the two cache files, the     *)
(* rules, the flags, the endpoint's answers), written without any order of *)
(* completion.  The cache files hold the run's inputs until the save.      *)
(***************************************************************************)
RefListed ==
    {f \in DirEntries :
        /\ f \in Documents => files[f].exists
        /\ \/ EndsWith(lower(f), DotEpub)
           \/ EndsWith(lower(f), DotPdf)}

\* What the run does with one listed file: whether its cache check is a HIT,
\* and what its extraction yields if it is not.
RefFile(f) ==
    LET hit == /\ ~opts.force_reload
               /\ check_file_cache(files[f], Get(load_cache(meta_file), f)).status = "HIT"
    IN  [file |-> f, hit |-> hit,
         extracted |-> IF hit THEN <<>> ELSE process_file(f, files[f])]

\* The function whose graph is the set of pairs G.
FunctionOf(G) == [x \in {p[1] : p \in G} |-> (CHOOSE p \in G : p[1] = x)[2]]

\* The metadata cache: what was loaded, with the entry the commit writes for
\* each file extracted with success.
RefMetadataCache(loaded, verdicts) ==
    Update(loaded,
           FunctionOf({<<v.file, [mtime |-> files[v.file].mtime,
                                  metadata |-> v.extracted[1]]>> :
                          v \in {w \in verdicts : w.extracted # <<>>}}))

\* The pairs <<file, record>>: the cached record of a HIT, the extracted one
\* of a success.
RefRecords(loaded, verdicts) ==
    {<<v.file, IF v.hit THEN loaded[v.file].metadata ELSE v.extracted[1]>> :
        v \in {w \in verdicts : w.hit \/ w.extracted # <<>>}}

\* tiers: the pairs <<name, branch of the resolution loop it takes>>.
RefPublisherMap(tiers, answers) ==
    Update(FunctionOf({<<p[1], p[2].value[1]>> : p \in {q \in tiers : q[2].tier # "pending"}}),
           answers)

RefPublisherCache(start, tiers, answers) ==
    Update(Update(start,
                  FunctionOf({<<p[1], p[2].value[1]>> :
                                 p \in {q \in tiers : q[2].tier = "rule"}})),
           answers)

\* C19: when a run that no interruption ended, and during which no file
\* changed, is about to save, the metadata cache, the publisher cache and
\* (unless an error of the external step ended the run before assembly) the
\* catalog are what the run's inputs and the endpoint's answers determine,
\* whatever the order in which the cache checks and the extractions
\* completed and the set of publishers was iterated.
C19_OrderIndependence ==
    (pc = "save_meta" /\ exit \in {"ok", "ioerror", "error"} /\ mods = start_mods) =>
        LET loaded == load_cache(meta_file)
            start == StartCache
            verdicts == {RefFile(f) : f \in RefListed}
            records == RefRecords(loaded, verdicts)
            tiers == {<<n, ResolveTier(n, start, rules)>> :
                         n \in {p[2].publisher : p \in records}}
            pmap == RefPublisherMap(tiers, ai_results)
        IN  /\ metadata_cache = RefMetadataCache(loaded, verdicts)
            /\ publisher_cache = RefPublisherCache(start, tiers, ai_results)
            /\ exit # "error" =>
                  final_metadata = FunctionOf({<<p[1], CatalogEntry(p[2], pmap)>> : p \in records})

\* A run is about to save in which two extractions completed, that of b.PDF
\* before that of a.epub, and the endpoint answered for a pending name.
C19_Witness ==
    /\ pc = "save_meta" /\ exit = "ok" /\ mods = start_mods
    /\ Len(raw_metadata_list) = 2
    /\ raw_metadata_list[1].filename = B_PDF
    /\ raw_metadata_list[2].filename = A_EPUB
    /\ DOMAIN extract_futures = {A_EPUB, B_PDF}
    /\ ai_results # EmptyDict
    /\ DOMAIN final_metadata = {A_EPUB, B_PDF}

(***************************************************************************)
(* The external step on its own, lines 353-363 and 112-155, for pending    *)
(* lists longer than one chunk.  The names stand for the publishers of as  *)
(* many documents; the documents play no part in these lines.  The         *)
(* endpoint answers a chunk with an object for all of its names or with an *)
(* empty one.                                                              *)
(***************************************************************************)
MaxPending == 101

Digit(d) == <<"0", "1", "2", "3", "4", "5", "6", "7", "8", "9">>[d + 1]

PendingName(i) == <<"p", Digit(i \div 100), Digit((i \div 10) % 10), Digit(i % 10)>>

PendingNames(n) == [i \in 1..n |-> PendingName(i)]

AllOrNothing(chunk) == {EmptyDict, [k \in ResponseKeys(chunk) |-> CanonQ]}

ChunkInit ==
    /\ files = [f \in Documents |-> [exists |-> TRUE, mtime |-> 1,
                                     content |-> Embedded(<<>>)]]
    /\ mods = 0
    /\ ai_calls = 0
    /\ rules_file = NoRulesFile
    /\ meta_file = AbsentFile
    /\ pub_file = AbsentFile
    /\ catalog_file = NoCatalog
    /\ pc = "resolve"
    /\ run = 1
    /\ opts = NoOptions
    /\ ai_opts = NoAiOptions
    /\ exit = ""
    /\ metadata_cache = EmptyDict
    /\ publisher_cache = EmptyDict
    /\ rules = <<>>
    /\ all_files_in_dir = {}
    /\ raw_metadata_list = <<>>
    /\ files_to_process = {}
    /\ check_futures = EmptyDict
    /\ extract_futures = EmptyDict
    /\ processed_count = 0
    /\ all_publishers = <<>>
    /\ publisher_map = EmptyDict
    /\ \E n \in 0..MaxPending :
          /\ publishers_for_ai = PendingNames(n)
          /\ tier = [name \in SeqToSet(PendingNames(n)) |-> "pending"]
    /\ ai_gate = ""
    /\ ai = NoAi
    /\ ai_results = EmptyDict
    /\ final_metadata = EmptyDict
    /\ start_mods = 0
    /\ prev = NoPrev

ChunkNext ==
    \/ AiGate
    \/ AiChunkFrom(AllOrNothing(NextChunk))
    \/ AiReturn

ChunkSpec == ChunkInit /\ [][ChunkNext]_vars

\* The concatenation of a sequence of sequences.
RECURSIVE Concat(_)
Concat(seqs) == IF seqs = <<>> THEN <<>> ELSE Head(seqs) \o Concat(Tail(seqs))

\* The pending list holds no name twice.
NoNameTwice == \A i, j \in 1..Len(publishers_for_ai) :
                   publishers_for_ai[i] = publishers_for_ai[j] => i = j

\* The chunks are the pending list cut, in order, into groups of at most
\* chunk_size names, none of them empty; each pending name is in one chunk.
ChunksPartition ==
    ai_gate = "call" =>
        /\ Concat(ai.chunks) = publishers_for_ai
        /\ \A c \in 1..Len(ai.chunks) :
              Len(ai.chunks[c]) \in 1..chunk_size
        /\ \A name \in Pending :
              Cardinality({c \in 1..Len(ai.chunks) :
                              name \in SeqToSet(ai.chunks[c])}) = 1

\* C20 as stated: the pending list holds no name twice; when the external
\* step is taken, the chunks partition the pending list in order into groups
\* of at most chunk_size names, each name in exactly one chunk; and when the
\* step is over, one request has been made for each chunk.
C20_AsStated ==
    /\ NoNameTwice
    /\ ChunksPartition
    /\ (ai_gate = "call" /\ pc \notin {"resolve", "ai"}) =>
          /\ Len(ai.requests) = Len(ai.chunks)
          /\ \A c \in 1..Len(ai.chunks) : ai.requests[c] = ai.chunks[c]

\* The same, up to the chunk at which an exception leaves the loop.
ChunksUntilRaise ==
    /\ NoNameTwice
    /\ ChunksPartition
    /\ ai_gate = "call" =>
          /\ Len(ai.requests) <= Len(ai.chunks)
          /\ \A c \in 1..Len(ai.requests) : ai.requests[c] = ai.chunks[c]
          /\ (pc \notin {"resolve", "ai"} /\ exit # "error") =>
                Len(ai.requests) = Len(ai.chunks)

\* The futures of the extraction pool the main thread has taken.
Collected == {f \in DOMAIN extract_futures : extract_futures[f].state = "collected"}

\* How many records of the list carry the filename f.
RecordsOf(f) ==
    Cardinality({i \in 1..Len(raw_metadata_list) : raw_metadata_list[i].filename = f})

\* The extraction stage is over and the run goes on.
PastExtraction ==
    /\ pc \in TryStages \ {"list", "check", "extract"}
    /\ exit # "interrupt"

C21_State ==
    /\ pc = "extract" =>
          /\ DOMAIN extract_futures = files_to_process
          /\ processed_count = Cardinality(Collected)
          /\ processed_count <= Cardinality(files_to_process)
    /\ PastExtraction =>
          /\ processed_count = Cardinality(files_to_process)
          /\ \A f \in files_to_process :
                /\ f \in Collected
                /\ RecordsOf(f) = IF extract_futures[f].book_meta # <<>> THEN 1 ELSE 0

C21_Step ==
    /\ (pc = "check" /\ pc' = "extract") => processed_count' = 0
    /\ (pc = "extract" /\ pc' = "extract") =>
          /\ processed_count' \in {processed_count, processed_count + 1}
          /\ processed_count' = processed_count + 1 <=>
                \E f \in files_to_process :
                    /\ extract_futures[f].state = "done"
                    /\ extract_futures'[f].state = "collected"
    /\ (pc = "extract" /\ pc' = "resolve") =>
          processed_count = Cardinality(files_to_process)

\* C21: the completed count is 0 when the extraction stage starts; while the
\* stage runs it is the number of futures the main thread has taken, so it
\* grows by exactly one with each of them, record or failure, and never
\* exceeds the number of files to process; the run leaves the stage for the
\* resolution only with the count equal to that number; and after the stage
\* every file to process has one collected future and one record in the
\* list if its extraction produced one, none if it failed.
C21_ProgressCount == []C21_State /\ [][C21_Step]_vars

\* The stage has ended with a count of 2: one file gave a record, the
\* extraction of the other failed.
C21_Witness ==
    /\ pc = "resolve"
    /\ processed_count = 2
    /\ Cardinality(files_to_process) = 2
    /\ \E f, g \in files_to_process :
          /\ extract_futures[f].book_meta = <<>>
          /\ extract_futures[g].book_meta # <<>>
          /\ RecordsOf(f) = 0
          /\ RecordsOf(g) = 1

\* C22 as stated: once the external step has returned, every entry of the
\* in-run map and of the publisher cache whose name is not on this run's
\* pending list is what the cache or a rule gave that name: the endpoint's
\* mapping changed no such entry and added none.
C22_AsStated ==
    (/\ ai_gate = "call"
     /\ pc \in {"assemble", "symlink", "output", "dump", "save_meta"}
     /\ exit # "interrupt") =>
        /\ \A name \in (DOMAIN publisher_map) \ Pending :
              /\ name \in DOMAIN tier
              /\ tier[name] \in {"cache", "rule"}
              /\ publisher_map[name] = ResolveTier(name, StartCache, rules).value[1]
        /\ \A name \in (DOMAIN publisher_cache) \ Pending :
              \/ name \in DOMAIN StartCache /\ publisher_cache[name] = StartCache[name]
              \/ /\ name \in DOMAIN tier
                 /\ tier[name] = "rule"
                 /\ publisher_cache[name] = ResolveTier(name, StartCache, rules).value[1]

====
